---- MODULE Spec2Model ----
(***************************************************************************)
(* Verification model of ARQV30 Enhanced: the key-rotating LLM reasoning   *)
(* service (external_ai_verifier/src/services/llm_reasoning_service.py),   *)
(* the hierarchical AI manager (src/services/enhanced_ai_manager.py) and   *)
(* the synthesis engine (src/services/enhanced_synthesis_engine.py).       *)
(* Each component has its own specification over the shared variables; the *)
(* variables of the other components stay at their initial values.         *)
(***************************************************************************)
EXTENDS Integers, Sequences, FiniteSets, TLC

None == "None"

Min(a, b) == IF a < b THEN a ELSE b

Max(a, b) == IF a > b THEN a ELSE b

RECURSIVE Pow2(_)
Pow2(k) == IF k = 0 THEN 1 ELSE 2 * Pow2(k - 1)

(***************************************************************************)
(* Part 1. ExternalLLMReasoningService                                     *)
(***************************************************************************)

\* bounds of the model
MaxKeys == 2

MaxCalls == 3

JitterSteps == 2

\* program constants (times are kept in units of 1/JitterSteps second)
max_retries_on_quota_error == 3

base_retry_delay == 1

max_retry_delay == 60

max_key_failures == 3

rotation_sleep == 1

AllKeys == <<"KEY_A", "KEY_B", "KEY_C", "KEY_D">>

\* error messages an LLM request can fail with (str(e) before lower())
ErrMsgs == {"429 Too Many Requests", "Quota exceeded", "RATE LIMIT reached",
            "Deadline exceeded", "Invalid argument"}

VARIABLES
    api_keys,            \* self.api_keys: the configured keys, in order
    GEMINI_AVAILABLE,    \* the google.generativeai import succeeded
    enabled,             \* self.enabled
    current_key_index,   \* self.current_key_index (0-based)
    key_failure_count,   \* self.key_failure_count, absent entries read as 0
    client,              \* key the client was configured with, or None
    llm_pc,              \* "idle" or "attempting" (inside the retry loop)
    attempt,             \* loop variable of _analyze_with_gemini_with_retry
    delay,               \* local delay of the retry loop
    keys_tried,          \* local set keys_tried
    llm_reqs,            \* requests sent by the current call, in order
    llm_waits,           \* sleeps done by the current call, in order
    llm_result,          \* what the last analyze_with_llm returned
    retry_exit,          \* how _analyze_with_gemini_with_retry last ended
    llm_calls            \* number of analyze_with_llm calls started

llmVars == <<api_keys, GEMINI_AVAILABLE, enabled, current_key_index,
             key_failure_count, client, llm_pc, attempt, delay, keys_tried,
             llm_reqs, llm_waits, llm_result, retry_exit, llm_calls>>

KeyIndices == 0 .. (Len(api_keys) - 1)

\* str(e).lower()
Lower(msg) ==
    CASE msg = "429 Too Many Requests" -> "429 too many requests"
      [] msg = "Quota exceeded" -> "quota exceeded"
      [] msg = "RATE LIMIT reached" -> "rate limit reached"
      [] msg = "Deadline exceeded" -> "deadline exceeded"
      [] msg = "Invalid argument" -> "invalid argument"
      [] OTHER -> msg

\* needle in haystack, for the lower-cased messages above
Contains(haystack, needle) ==
    CASE needle = "429" -> haystack = "429 too many requests"
      [] needle = "quota" -> haystack = "quota exceeded"
      [] needle = "rate limit" -> haystack = "rate limit reached"
      [] OTHER -> FALSE

IsQuotaErrorAny(e) == TRUE

IsQuotaError(e) ==
    LET error_message == Lower(e)
    IN  \/ Contains(error_message, "429")
        \/ Contains(error_message, "quota")
        \/ Contains(error_message, "rate limit")

SkipDisabledNever(i, fails, n) == i

\* while key_failure_count.get(index, 0) >= max_key_failures: index = (index + 1) % n
RECURSIVE SkipDisabled(_, _, _)
SkipDisabled(i, fails, n) ==
    IF fails[i] >= max_key_failures
    THEN SkipDisabled((i + 1) % n, fails, n)
    ELSE i

GetNextApiKeyNoSkip(idx, fails, keys) ==
    IF Len(keys) = 0
    THEN [key |-> None, idx |-> idx]
    ELSE [key |-> keys[((idx + 1) % Len(keys)) + 1],
          idx |-> (idx + 1) % Len(keys)]

\* _get_next_api_key: the key returned and the new current_key_index
GetNextApiKey(idx, fails, keys) ==
    IF Len(keys) = 0
    THEN [key |-> None, idx |-> idx]
    ELSE LET n == Len(keys)
             available_keys == {i \in 0 .. (n - 1) : fails[i] < max_key_failures}
         IN  IF available_keys = {}
             THEN [key |-> None, idx |-> idx]
             ELSE LET j == SkipDisabled((idx + 1) % n, fails, n)
                  IN  [key |-> keys[j + 1], idx |-> j]

NextDelayFixed(d, att, jitter) == d

\* delay = min(base_retry_delay * (2 ** attempt) + random.uniform(0, 1), max_retry_delay)
NextDelay(d, att, jitter) ==
    Min(base_retry_delay * Pow2(att) * JitterSteps + jitter,
        max_retry_delay * JitterSteps)

\* _mark_key_failure
MarkKeyFailure(fails, idx) == [fails EXCEPT ![idx] = @ + 1]

\* _reset_key_failure
ResetKeyFailure(fails, idx) == [fails EXCEPT ![idx] = 0]

\* _rotate_to_next_key: return value, new index and new client
RotateToNextKey(idx, fails, keys, cl, avail) ==
    LET nk == GetNextApiKey(idx, fails, keys)
    IN  IF nk.key = None
        THEN [ok |-> FALSE, idx |-> nk.idx, client |-> cl]
        ELSE IF avail
             THEN [ok |-> TRUE, idx |-> nk.idx, client |-> nk.key]
             ELSE [ok |-> FALSE, idx |-> nk.idx, client |-> cl]

\* _initialize_llm_client, run by __init__ with current_key_index = 0
InitializeLlmClient(keys, avail) ==
    IF Len(keys) = 0
    THEN [idx |-> 0, client |-> None]
    ELSE IF avail
         THEN LET nk == GetNextApiKey(0, [i \in 0 .. (Len(keys) - 1) |-> 0], keys)
              IN  [idx |-> nk.idx, client |-> nk.key]
         ELSE [idx |-> 0, client |-> None]

\* the dictionaries analyze_with_llm returns (scores in tenths)
LlmResult(response, confidence, recommendation, key_used) ==
    [llm_response |-> response, llm_confidence |-> confidence,
     llm_recommendation |-> recommendation, api_key_used |-> key_used]

\* no analyze_with_llm call has returned yet
NoLlmResult == LlmResult(None, 0, None, 0)

GetDefaultResultWithSuccess ==
    [llm_response |-> "LLM nao disponivel ou configurado", llm_confidence |-> 1,
     llm_recommendation |-> "REVISAO_MANUAL", api_key_used |-> 0, success |-> FALSE]

\* _get_default_result
GetDefaultResult ==
    LlmResult("LLM nao disponivel ou configurado", 1, "REVISAO_MANUAL", 0)

\* _parse_llm_response for the text of a response
ParseLlmResponse(response, idx) == LlmResult(response, 5, "REVISAO_MANUAL", idx + 1)

LLMInit ==
    /\ api_keys \in {SubSeq(AllKeys, 1, n) : n \in 0 .. MaxKeys}
    /\ GEMINI_AVAILABLE \in BOOLEAN
    /\ enabled \in BOOLEAN
    /\ key_failure_count = [i \in 0 .. (Len(api_keys) - 1) |-> 0]
    /\ current_key_index = InitializeLlmClient(api_keys, GEMINI_AVAILABLE).idx
    /\ client = InitializeLlmClient(api_keys, GEMINI_AVAILABLE).client
    /\ llm_pc = "idle"
    /\ attempt = 0
    /\ delay = 0
    /\ keys_tried = {}
    /\ llm_reqs = <<>>
    /\ llm_waits = <<>>
    /\ llm_result = NoLlmResult
    /\ retry_exit = None
    /\ llm_calls = 0

\* analyze_with_llm, up to the first request of _analyze_with_gemini_with_retry
AnalyzeWithLlm(textOk) ==
    /\ llm_pc = "idle"
    /\ llm_calls < MaxCalls
    /\ llm_calls' = llm_calls + 1
    /\ llm_reqs' = <<>>
    /\ llm_waits' = <<>>
    /\ retry_exit' = None
    /\ IF ~enabled \/ client = None \/ ~textOk
       THEN /\ llm_result' = GetDefaultResult
            /\ UNCHANGED <<llm_pc, attempt, delay, keys_tried>>
       ELSE /\ llm_pc' = "attempting"
            /\ attempt' = 0
            /\ delay' = base_retry_delay * JitterSteps
            /\ keys_tried' = {}
            /\ llm_result' = NoLlmResult
    /\ UNCHANGED <<api_keys, GEMINI_AVAILABLE, enabled, current_key_index,
                   key_failure_count, client>>

\* generate_content returns: response parsed, _reset_key_failure, result returned
RequestSucceeds ==
    /\ llm_pc = "attempting"
    /\ llm_reqs' = Append(llm_reqs, [key |-> client, idx |-> current_key_index,
                                     attempt |-> attempt, out |-> "ok"])
    /\ key_failure_count' = ResetKeyFailure(key_failure_count, current_key_index)
    /\ llm_result' = ParseLlmResponse("TEXT", current_key_index)
    /\ retry_exit' = "return"
    /\ llm_pc' = "idle"
    /\ UNCHANGED <<api_keys, GEMINI_AVAILABLE, enabled, current_key_index, client,
                   attempt, delay, keys_tried, llm_waits, llm_calls>>

RetriesLeftAlways(att) == TRUE

\* if attempt < self.max_retries_on_quota_error
RetriesLeft(att) == att < max_retries_on_quota_error

\* the request raises an exception whose message is e
RequestFails(e) ==
    /\ llm_pc = "attempting"
    /\ llm_reqs' = Append(llm_reqs, [key |-> client, idx |-> current_key_index,
                                     attempt |-> attempt, out |-> e])
    /\ IF IsQuotaError(e)
       THEN LET fails1 == MarkKeyFailure(key_failure_count, current_key_index)
                tried1 == keys_tried \cup {current_key_index}
            IN  /\ key_failure_count' = fails1
                /\ keys_tried' = tried1
                /\ IF RetriesLeft(attempt)
                   THEN IF Cardinality(tried1) < Len(api_keys)
                        THEN LET r == RotateToNextKey(current_key_index, fails1,
                                                      api_keys, client, GEMINI_AVAILABLE)
                             IN  /\ current_key_index' = r.idx
                                 /\ client' = r.client
                                 /\ delay' = delay
                                 /\ IF r.ok
                                    THEN /\ llm_waits' = Append(llm_waits,
                                              [kind |-> "rotation", attempt |-> attempt,
                                               secs |-> rotation_sleep * JitterSteps])
                                         /\ attempt' = attempt + 1
                                         /\ UNCHANGED <<llm_pc, llm_result, retry_exit>>
                                    ELSE /\ llm_result' = GetDefaultResult
                                         /\ retry_exit' = e
                                         /\ llm_pc' = "idle"
                                         /\ UNCHANGED <<llm_waits, attempt>>
                        ELSE /\ llm_waits' = Append(llm_waits,
                                   [kind |-> "backoff", attempt |-> attempt,
                                    secs |-> delay])
                             /\ \E jitter \in 0 .. JitterSteps :
                                   delay' = NextDelay(delay, attempt, jitter)
                             /\ attempt' = attempt + 1
                             /\ UNCHANGED <<current_key_index, client, llm_pc,
                                            llm_result, retry_exit>>
                   ELSE /\ llm_result' = GetDefaultResult
                        /\ retry_exit' = e
                        /\ llm_pc' = "idle"
                        /\ UNCHANGED <<current_key_index, client, llm_waits, attempt, delay>>
       ELSE /\ llm_result' = GetDefaultResult
            /\ retry_exit' = e
            /\ llm_pc' = "idle"
            /\ UNCHANGED <<current_key_index, key_failure_count, client, keys_tried,
                           llm_waits, attempt, delay>>
    /\ UNCHANGED <<api_keys, GEMINI_AVAILABLE, enabled, llm_calls>>

(***************************************************************************)
(* Claims about ExternalLLMReasoningService                                *)
(***************************************************************************)

QuotaMsgs == {"429 Too Many Requests", "Quota exceeded", "RATE LIMIT reached"}

NonQuotaMsgs == {"Deadline exceeded", "Invalid argument"}

LastReq(reqs) == reqs[Len(reqs)]

\* a request has just failed with a quota error while retries remain and
\* fewer distinct keys were tried than are configured
QuotaRotationStep ==
    /\ llm_pc = "attempting"
    /\ Len(llm_reqs') = Len(llm_reqs) + 1
    /\ LastReq(llm_reqs').out \in QuotaMsgs
    /\ attempt < max_retries_on_quota_error
    /\ Cardinality(keys_tried') < Len(api_keys)

BackoffWaits == SelectSeq(llm_waits, LAMBDA w : w.kind = "backoff")

\* C1 as stated: after a quota error on key i with retries and untried keys
\* left, the next request is sent with the key at index (i+1) modulo the
\* number of keys.
C1_NextKeyIsSuccessor ==
    [][QuotaRotationStep =>
         LET i == LastReq(llm_reqs').idx
         IN  /\ llm_pc' = "attempting"
             /\ client' = api_keys[((i + 1) % Len(api_keys)) + 1]]_llmVars

\* C1 amended: after such a quota error the next request uses the first key
\* in cyclic order after i whose failure count is below max_key_failures
\* (i itself when it is the only such key); when every key has reached
\* max_key_failures no further request is sent and the error is raised.
C1_NextKeyIsNextAvailable ==
    [][QuotaRotationStep =>
         LET i == LastReq(llm_reqs').idx
             n == Len(api_keys)
             f == key_failure_count'
         IN  IF \E k \in 0 .. (n - 1) : f[k] < max_key_failures
             THEN /\ llm_pc' = "attempting"
                  /\ \E d \in 1 .. n :
                        /\ client' = api_keys[((i + d) % n) + 1]
                        /\ current_key_index' = (i + d) % n
                        /\ f[(i + d) % n] < max_key_failures
                        /\ \A d2 \in 1 .. (d - 1) : f[(i + d2) % n] >= max_key_failures
             ELSE /\ llm_pc' = "idle"
                  /\ retry_exit' = LastReq(llm_reqs').out
                  /\ client' = client]_llmVars

\* witness of C1: a rotation has just happened that skipped a disabled key
C1_Witness ==
    /\ llm_pc = "attempting"
    /\ Len(llm_reqs) >= 1
    /\ Len(llm_waits) >= 1
    /\ llm_waits[Len(llm_waits)].kind = "rotation"
    /\ llm_waits[Len(llm_waits)].attempt = LastReq(llm_reqs).attempt
    /\ LastReq(llm_reqs).out \in QuotaMsgs
    /\ key_failure_count[(LastReq(llm_reqs).idx + 1) % Len(api_keys)] >= max_key_failures

\* C7: a request that fails with an error that is not a quota/rate-limit
\* error ends the retry loop at once: the error is raised to the caller, with
\* no key rotation, no sleep and no change to any key's failure count.
C7_NonQuotaErrorNotRetried ==
    [][(/\ Len(llm_reqs') = Len(llm_reqs) + 1
        /\ LastReq(llm_reqs').out \in NonQuotaMsgs)
       => /\ llm_pc' = "idle"
          /\ retry_exit' = LastReq(llm_reqs').out
          /\ current_key_index' = current_key_index
          /\ client' = client
          /\ llm_waits' = llm_waits
          /\ key_failure_count' = key_failure_count]_llmVars

\* witness of C7: a non-quota error was raised after earlier quota retries
C7_Witness ==
    /\ llm_pc = "idle"
    /\ Len(llm_reqs) >= 2
    /\ LastReq(llm_reqs).out \in NonQuotaMsgs
    /\ llm_reqs[1].out \in QuotaMsgs
    /\ retry_exit \in NonQuotaMsgs

\* C8 as stated: within one call all backoff waits (quota error after every
\* key was tried, retries remaining) are the same fixed interval.
C8_BackoffIsFixed ==
    \A a, b \in 1 .. Len(BackoffWaits) : BackoffWaits[a].secs = BackoffWaits[b].secs

\* C8 amended: the first backoff wait of a call is base_retry_delay; every
\* later one lies between base_retry_delay * 2^a and
\* min(base_retry_delay * 2^a + 1, max_retry_delay), a being the attempt
\* number at which the previous backoff wait was made.
C8_BackoffIsExponential ==
    \A k \in 1 .. Len(BackoffWaits) :
        IF k = 1
        THEN BackoffWaits[k].secs = base_retry_delay * JitterSteps
        ELSE LET a == BackoffWaits[k - 1].attempt
             IN  /\ BackoffWaits[k].secs >= Min(base_retry_delay * Pow2(a),
                                                max_retry_delay) * JitterSteps
                 /\ BackoffWaits[k].secs <= Min(base_retry_delay * Pow2(a) + 1,
                                                max_retry_delay) * JitterSteps

\* witness of C8: one call has made three backoff waits of growing length
C8_Witness ==
    /\ Len(BackoffWaits) >= 3
    /\ BackoffWaits[1].secs < BackoffWaits[2].secs
    /\ BackoffWaits[2].secs < BackoffWaits[3].secs

\* the LLM call of the last analyze_with_llm failed: the retry loop raised
LlmCallFailed == llm_pc = "idle" /\ retry_exit \in ErrMsgs

\* C11 as stated: when the LLM call inside analyze_with_llm fails, the
\* dictionary returned has a success field and it is false.
C11_DefaultHasSuccessFalse ==
    LlmCallFailed =>
        /\ "success" \in DOMAIN llm_result
        /\ llm_result.success = FALSE

\* C11 amended: when the LLM call fails, analyze_with_llm returns the
\* dictionary of _get_default_result (llm_confidence 0.1, llm_recommendation
\* REVISAO_MANUAL, api_key_used 0), which has no success field.
C11_DefaultWithoutSuccessField ==
    LlmCallFailed =>
        /\ llm_result.llm_confidence = 1
        /\ llm_result.llm_recommendation = "REVISAO_MANUAL"
        /\ llm_result.api_key_used = 0
        /\ "success" \notin DOMAIN llm_result

\* witness of C11: the call failed after a rotation and a backoff wait
C11_Witness ==
    /\ LlmCallFailed
    /\ retry_exit \in QuotaMsgs
    /\ \E k \in 1 .. Len(llm_waits) : llm_waits[k].kind = "rotation"
    /\ Len(BackoffWaits) >= 1
    /\ llm_result.api_key_used = 0

\* the keys whose failure count is below max_key_failures
AvailableKeyIndices == {i \in KeyIndices : key_failure_count[i] < max_key_failures}

\* C21: called in any state the service reaches, _get_next_api_key returns
\* (its while loop ends) a configured key whose failure count is below
\* max_key_failures and makes it the current key whenever such a key exists;
\* it returns None, and leaves the index alone, exactly when no key is
\* configured or every key has reached max_key_failures.
C21_NextKeyIsAvailable ==
    LET nk == GetNextApiKey(current_key_index, key_failure_count, api_keys)
    IN  /\ (nk.key = None) <=> (AvailableKeyIndices = {})
        /\ AvailableKeyIndices # {} =>
              /\ nk.idx \in AvailableKeyIndices
              /\ nk.key = api_keys[nk.idx + 1]
        /\ AvailableKeyIndices = {} => nk.idx = current_key_index

\* witness of C21: a rotation has just skipped a disabled key, and another
\* call of _get_next_api_key would skip it again
C21_Witness ==
    /\ llm_pc = "attempting"
    /\ Len(api_keys) >= 2
    /\ Len(llm_waits) >= 1
    /\ llm_waits[Len(llm_waits)].kind = "rotation"
    /\ AvailableKeyIndices = {current_key_index}
    /\ GetNextApiKey(current_key_index, key_failure_count, api_keys).idx
           = current_key_index

\* a request has just failed with a quota error and _rotate_to_next_key
\* returned True: the loop sleeps rotation_sleep and continues
RotationReturnedTrue ==
    /\ QuotaRotationStep
    /\ Len(llm_waits') = Len(llm_waits) + 1
    /\ LastReq(llm_waits').kind = "rotation"

\* C22: whenever _rotate_to_next_key returns True after a quota error, the
\* key now in use (the client and current_key_index) is a different key
\* from the one whose request just failed.
C22_RotationChangesKey ==
    [][RotationReturnedTrue =>
         /\ client' # LastReq(llm_reqs').key
         /\ current_key_index' # LastReq(llm_reqs').idx]_llmVars

\* C23: no request is sent with a disabled key: whenever a request is sent
\* (in the first or in any later analyze_with_llm call), the failure count
\* of the key it is sent with is below max_key_failures at that moment.
C23_NoRequestWithDisabledKey ==
    [][Len(llm_reqs') = Len(llm_reqs) + 1 =>
         key_failure_count[LastReq(llm_reqs').idx] < max_key_failures]_llmVars

\* C24: one call of _analyze_with_gemini_with_retry sends at most
\* max_retries_on_quota_error + 1 requests and terminates: while the loop
\* runs, the attempt number equals the number of requests sent and is at
\* most max_retries_on_quota_error; every request either ends the loop or
\* raises the attempt number by one; and the loop ends by returning the
\* response text or by raising the provider's error.
C24_RetryLoopBounded ==
    /\ [](/\ Len(llm_reqs) <= max_retries_on_quota_error + 1
          /\ llm_pc = "attempting" =>
                /\ attempt = Len(llm_reqs)
                /\ attempt <= max_retries_on_quota_error
          /\ (llm_pc = "idle" /\ Len(llm_reqs) >= 1) =>
                retry_exit \in {"return"} \cup ErrMsgs)
    /\ [][(llm_pc = "attempting" /\ Len(llm_reqs') = Len(llm_reqs) + 1) =>
            \/ llm_pc' = "idle"
            \/ llm_pc' = "attempting" /\ attempt' = attempt + 1]_llmVars

\* witness of C24: a call has sent max_retries_on_quota_error + 1 requests,
\* all answered with quota errors, and has ended by raising
C24_Witness ==
    /\ llm_pc = "idle"
    /\ Len(llm_reqs) = max_retries_on_quota_error + 1
    /\ \A i \in 1 .. Len(llm_reqs) : llm_reqs[i].out \in QuotaMsgs
    /\ retry_exit \in QuotaMsgs

\* C25: the first request sent by a freshly constructed service that has at
\* least one configured key is sent with the first configured key, index 0.
C25_FirstRequestUsesFirstKey ==
    (llm_calls = 1 /\ Len(api_keys) >= 1 /\ Len(llm_reqs) >= 1) =>
        /\ llm_reqs[1].idx = 0
        /\ llm_reqs[1].key = api_keys[1]

(***************************************************************************)
(* Part 2. EnhancedAIManager                                               *)
(*                                                                         *)
(* Callers are coroutines of one event loop (threaded = FALSE: a coroutine *)
(* runs until it awaits) or route handlers in separate threads, each with  *)
(* its own loop (threaded = TRUE: every access to the shared manager is a  *)
(* step of its own, and asyncio.Lock, which is not thread-safe, is tested  *)
(* and set in two steps).  Only differences of clock readings matter, so   *)
(* the clock is kept as the ages of the time stamps, saturated at          *)
(* request_delay.                                                          *)
(***************************************************************************)

\* bounds of the model
MaxORKeys == 2

MaxGemKeys == 1

MaxThreadORKeys == 1

MaxMgrCalls == 2

MaxResets == 1

TickFine == 5

\* program constant: self.request_delay, seconds
request_delay == 10

\* the concurrent callers of the one global manager
Callers == {"c1", "c2"}

Grok == "x-ai/grok-4-fast:free"

GeminiOR == "google/gemini-2.0-flash-exp:free"

GeminiDirect == "gemini-2.0-flash-exp"

\* self.model_hierarchy
model_hierarchy ==
    << [name |-> Grok, provider |-> "openrouter", priority |-> 1],
       [name |-> GeminiOR, provider |-> "openrouter", priority |-> 2],
       [name |-> GeminiDirect, provider |-> "gemini_direct", priority |-> 3] >>

ORKeyNames == <<"OR_KEY_1", "OR_KEY_2", "OR_KEY_3", "OR_KEY_4">>

GemKeyNames == <<"GEM_KEY_1", "GEM_KEY_2", "GEM_KEY_3">>

\* what a request can come back with: HTTP status and message content
\* (status 0: the call raised, e.g. a timeout)
Responses ==
    { [status |-> 200, content |-> "TEXT"],
      [status |-> 200, content |-> ""],
      [status |-> 200, content |-> None],
      [status |-> 429, content |-> None],
      [status |-> 0, content |-> None] }

Overrides == {None, Grok, "unknown-model"}

VARIABLES
    openrouter_keys,          \* self.openrouter_keys
    gemini_keys,              \* self.gemini_keys
    genai_installed,          \* import google.generativeai succeeds
    threaded,                 \* callers run in separate threads, each with its loop
    mgr_current_key_index,    \* self.current_key_index of the manager
    current_gemini_key_index, \* self.current_gemini_key_index
    last_request_age,         \* time.time() - self.last_request_time, saturated
    request_lock,             \* self.request_lock is locked
    running,                  \* coroutine the single event loop is running, or None
    pc,                       \* position of each caller
    target_models,            \* local target_models of generate_text
    mi,                       \* position of model_config in target_models
    att,                      \* loop variable attempt
    api_key,                  \* local api_key
    idx_tmp,                  \* index value read for the increment
    sleep_left,               \* what is left of the caller's asyncio.sleep
    holds,                    \* the caller is inside "async with self.request_lock"
    sent,                     \* requests of the caller's current call, in order
    result,                   \* outcome of the caller's last generate_text
    stamp_age,                \* age of the last release by _apply_rate_limit_delay
    prev_gap,                 \* time between the last two releases, -1 if none
    mgr_calls,                \* generate_text calls started
    resets                    \* reset_failed_models calls made

mgrVars == <<openrouter_keys, gemini_keys, genai_installed, threaded,
             mgr_current_key_index, current_gemini_key_index, last_request_age,
             request_lock, running, pc, target_models, mi, att, api_key,
             idx_tmp, sleep_left, holds, sent, result, stamp_age, prev_gap,
             mgr_calls, resets>>

mgrConfig == <<openrouter_keys, gemini_keys, genai_installed, threaded>>

mgrIndices == <<mgr_current_key_index, current_gemini_key_index>>

mgrClock == <<last_request_age, sleep_left, stamp_age, prev_gap>>

mgrCounts == <<mgr_calls, resets>>

\* no generate_text call of the caller has ended yet
NoResult == [kind |-> "none", value |-> None]

TruthyNotNone(v) == v # None

\* Python truth value of a str-or-None
Truthy(v) == v # None /\ v # ""

\* target_models of generate_text
TargetModels(model_override) ==
    IF Truthy(model_override)
    THEN LET found == SelectSeq(model_hierarchy, LAMBDA m : m.name = model_override)
         IN  IF Len(found) = 0 THEN model_hierarchy ELSE found
    ELSE model_hierarchy

KeysOf(provider) ==
    IF provider = "openrouter" THEN openrouter_keys ELSE gemini_keys

KeyIndexOf(provider) ==
    IF provider = "openrouter" THEN mgr_current_key_index ELSE current_gemini_key_index

\* the attempt loop of the model runs at least once
CanAttempt(m) ==
    IF m.provider = "openrouter"
    THEN Len(openrouter_keys) > 0
    ELSE genai_installed /\ Len(gemini_keys) > 0

\* first position from p on whose model makes an attempt; 0 when the loop over
\* target_models ends (a model without attempts returns None at once)
RECURSIVE FirstRunnable(_, _)
FirstRunnable(tgt, p) ==
    IF p > Len(tgt) THEN 0
    ELSE IF CanAttempt(tgt[p]) THEN p
    ELSE FirstRunnable(tgt, p + 1)

Model(c) == target_models[c][mi[c]]

CanRun(c) == threaded \/ running \in {None, c}

Keep(c) == running' = IF threaded THEN None ELSE c

Yield == running' = None

\* generate_text ends: it returns a value or raises
Finish(c, res) ==
    /\ pc' = [pc EXCEPT ![c] = "idle"]
    /\ result' = [result EXCEPT ![c] = res]
    /\ mi' = [mi EXCEPT ![c] = 0]
    /\ att' = [att EXCEPT ![c] = 0]
    /\ Yield

\* generate_text goes on with the model at position p, or raises after the last
Proceed(c, tgt, p) ==
    LET q == FirstRunnable(tgt, p)
    IN  IF q = 0
        THEN Finish(c, [kind |-> "raise", value |-> None])
        ELSE /\ pc' = [pc EXCEPT ![c] = "acquire"]
             /\ mi' = [mi EXCEPT ![c] = q]
             /\ att' = [att EXCEPT ![c] = 0]
             /\ result' = [result EXCEPT ![c] = NoResult]
             /\ Keep(c)

\* the manager after __init__, with up to maxOR OpenRouter keys configured
MgrConstructed(th, maxOR) ==
    /\ openrouter_keys \in {SubSeq(ORKeyNames, 1, n) : n \in 0 .. maxOR}
    /\ gemini_keys \in {SubSeq(GemKeyNames, 1, n) : n \in 0 .. MaxGemKeys}
    /\ genai_installed \in BOOLEAN
    /\ threaded = th
    /\ mgr_current_key_index = 0
    /\ current_gemini_key_index = 0
    /\ last_request_age = request_delay
    /\ request_lock = FALSE
    /\ running = None
    /\ pc = [c \in Callers |-> "idle"]
    /\ target_models = [c \in Callers |-> <<>>]
    /\ mi = [c \in Callers |-> 0]
    /\ att = [c \in Callers |-> 0]
    /\ api_key = [c \in Callers |-> None]
    /\ idx_tmp = [c \in Callers |-> 0]
    /\ sleep_left = [c \in Callers |-> 0]
    /\ holds = [c \in Callers |-> FALSE]
    /\ sent = [c \in Callers |-> <<>>]
    /\ result = [c \in Callers |-> NoResult]
    /\ stamp_age = -1
    /\ prev_gap = -1
    /\ mgr_calls = 0
    /\ resets = 0

\* callers are coroutines of one event loop
MgrInit == MgrConstructed(FALSE, MaxORKeys)

\* callers are route handlers in separate threads
MgrThreadsInit == MgrConstructed(TRUE, MaxThreadORKeys)

\* generate_text is called: target_models is chosen and the first model entered
GenerateText(c, model_override) ==
    /\ pc[c] = "idle"
    /\ CanRun(c)
    /\ mgr_calls < MaxMgrCalls
    /\ mgr_calls' = mgr_calls + 1
    /\ target_models' = [target_models EXCEPT ![c] = TargetModels(model_override)]
    /\ sent' = [sent EXCEPT ![c] = <<>>]
    /\ Proceed(c, TargetModels(model_override), 1)
    /\ UNCHANGED <<mgrConfig, mgrIndices, mgrClock, request_lock, api_key,
                   idx_tmp, holds, resets>>

\* _apply_rate_limit_delay: "async with self.request_lock" tests the lock
LockTest(c) ==
    /\ pc[c] = "acquire"
    /\ CanRun(c)
    /\ IF request_lock
       THEN /\ pc' = [pc EXCEPT ![c] = "lock_wait"]
            /\ Yield
       ELSE /\ pc' = [pc EXCEPT ![c] = "lock_set"]
            /\ Keep(c)
    /\ UNCHANGED <<mgrConfig, mgrIndices, mgrClock, mgrCounts, request_lock,
                   target_models, mi, att, api_key, idx_tmp, holds, sent, result>>

LockSkipped(c) ==
    /\ pc[c] = "lock_set"
    /\ CanRun(c)
    /\ pc' = [pc EXCEPT ![c] = "read_time"]
    /\ Keep(c)
    /\ UNCHANGED <<mgrConfig, mgrIndices, mgrClock, mgrCounts, request_lock, holds,
                   target_models, mi, att, api_key, idx_tmp, sent, result>>

\* the lock is taken
LockSet(c) ==
    /\ pc[c] = "lock_set"
    /\ CanRun(c)
    /\ request_lock' = TRUE
    /\ holds' = [holds EXCEPT ![c] = TRUE]
    /\ pc' = [pc EXCEPT ![c] = "read_time"]
    /\ Keep(c)
    /\ UNCHANGED <<mgrConfig, mgrIndices, mgrClock, mgrCounts,
                   target_models, mi, att, api_key, idx_tmp, sent, result>>

\* a waiter of the lock is woken after a release
LockWake(c) ==
    /\ pc[c] = "lock_wait"
    /\ CanRun(c)
    /\ ~request_lock
    /\ pc' = [pc EXCEPT ![c] = "lock_set"]
    /\ Keep(c)
    /\ UNCHANGED <<mgrConfig, mgrIndices, mgrClock, mgrCounts, request_lock,
                   target_models, mi, att, api_key, idx_tmp, holds, sent, result>>

\* waiting on a lock bound to another event loop raises RuntimeError, which
\* leaves the model's generator and is caught by generate_text's except
LockError(c) ==
    /\ pc[c] = "lock_wait"
    /\ threaded
    /\ Proceed(c, target_models[c], mi[c] + 1)
    /\ UNCHANGED <<mgrConfig, mgrIndices, mgrClock, mgrCounts, request_lock,
                   target_models, api_key, idx_tmp, holds, sent>>

\* current_time = time.time(); the wait is computed and the sleep started
ReadTime(c) ==
    /\ pc[c] = "read_time"
    /\ CanRun(c)
    /\ LET time_since_last_request == last_request_age
       IN  IF time_since_last_request < request_delay
           THEN /\ sleep_left' = [sleep_left EXCEPT ![c] =
                                    request_delay - time_since_last_request]
                /\ pc' = [pc EXCEPT ![c] = "sleeping"]
                /\ Yield
           ELSE /\ pc' = [pc EXCEPT ![c] = "set_last"]
                /\ UNCHANGED sleep_left
                /\ Keep(c)
    /\ UNCHANGED <<mgrConfig, mgrIndices, mgrCounts, request_lock, last_request_age,
                   stamp_age, prev_gap, target_models, mi, att, api_key, idx_tmp,
                   holds, sent, result>>

\* asyncio.sleep(wait_time) returns
WakeUp(c) ==
    /\ pc[c] = "sleeping"
    /\ CanRun(c)
    /\ sleep_left[c] = 0
    /\ pc' = [pc EXCEPT ![c] = "set_last"]
    /\ Keep(c)
    /\ UNCHANGED <<mgrConfig, mgrIndices, mgrClock, mgrCounts, request_lock,
                   target_models, mi, att, api_key, idx_tmp, holds, sent, result>>

\* self.last_request_time = time.time(): the request is released
SetLast(c) ==
    /\ pc[c] = "set_last"
    /\ CanRun(c)
    /\ last_request_age' = 0
    /\ prev_gap' = stamp_age
    /\ stamp_age' = 0
    /\ pc' = [pc EXCEPT ![c] = "release"]
    /\ Keep(c)
    /\ UNCHANGED <<mgrConfig, mgrIndices, mgrCounts, request_lock, sleep_left,
                   target_models, mi, att, api_key, idx_tmp, holds, sent, result>>

\* the "async with" block is left
Release(c) ==
    /\ pc[c] = "release"
    /\ CanRun(c)
    /\ request_lock' = FALSE
    /\ holds' = [holds EXCEPT ![c] = FALSE]
    /\ pc' = [pc EXCEPT ![c] = "get_key"]
    /\ Keep(c)
    /\ UNCHANGED <<mgrConfig, mgrIndices, mgrClock, mgrCounts,
                   target_models, mi, att, api_key, idx_tmp, sent, result>>

\* _get_next_openrouter_key / _get_next_gemini_key: key = keys[index], and the
\* index is read for the increment
GetKey(c) ==
    /\ pc[c] = "get_key"
    /\ CanRun(c)
    /\ api_key' = [api_key EXCEPT ![c] =
                     KeysOf(Model(c).provider)[KeyIndexOf(Model(c).provider) + 1]]
    /\ idx_tmp' = [idx_tmp EXCEPT ![c] = KeyIndexOf(Model(c).provider)]
    /\ pc' = [pc EXCEPT ![c] = "store_idx"]
    /\ Keep(c)
    /\ UNCHANGED <<mgrConfig, mgrIndices, mgrClock, mgrCounts, request_lock,
                   target_models, mi, att, holds, sent, result>>

\* index = (index + 1) % len(keys) is stored and the request goes out; the
\* OpenRouter post is awaited, the Gemini call blocks the loop
StoreIdxAndSend(c) ==
    /\ pc[c] = "store_idx"
    /\ CanRun(c)
    /\ IF Model(c).provider = "openrouter"
       THEN /\ mgr_current_key_index' = (idx_tmp[c] + 1) % Len(openrouter_keys)
            /\ UNCHANGED current_gemini_key_index
            /\ Yield
       ELSE /\ current_gemini_key_index' = (idx_tmp[c] + 1) % Len(gemini_keys)
            /\ UNCHANGED mgr_current_key_index
            /\ Keep(c)
    /\ idx_tmp' = [idx_tmp EXCEPT ![c] = 0]
    /\ sent' = [sent EXCEPT ![c] = Append(@, [model |-> Model(c).name,
                                              key |-> api_key[c]])]
    /\ pc' = [pc EXCEPT ![c] = "awaiting"]
    /\ UNCHANGED <<mgrConfig, mgrClock, mgrCounts, request_lock,
                   target_models, mi, att, api_key, holds, result>>

\* what the model's generator does with a response: "return" its content to
\* generate_text, or "continue" with the next attempt
GeneratorStep(provider, r) ==
    IF provider = "openrouter"
    THEN IF r.status = 200 THEN "return" ELSE "continue"
    ELSE IF r.status = 200 /\ Truthy(r.content) THEN "return" ELSE "continue"

\* the response arrives and is handled up to the next await
Receive(c, r) ==
    /\ pc[c] = "awaiting"
    /\ CanRun(c)
    /\ api_key' = [api_key EXCEPT ![c] = None]
    /\ IF GeneratorStep(Model(c).provider, r) = "return"
       THEN IF Truthy(r.content)
            THEN Finish(c, [kind |-> "return", value |-> r.content])
            ELSE Proceed(c, target_models[c], mi[c] + 1)
       ELSE IF att[c] + 1 < Len(KeysOf(Model(c).provider))
            THEN /\ pc' = [pc EXCEPT ![c] = "acquire"]
                 /\ att' = [att EXCEPT ![c] = att[c] + 1]
                 /\ UNCHANGED <<mi, result>>
                 /\ Keep(c)
            ELSE Proceed(c, target_models[c], mi[c] + 1)
    /\ UNCHANGED <<mgrConfig, mgrIndices, mgrClock, mgrCounts, request_lock,
                   target_models, idx_tmp, holds, sent>>

\* reset_failed_models
ResetFailedModels ==
    /\ resets < MaxResets
    /\ threaded \/ running = None
    /\ resets' = resets + 1
    /\ mgr_current_key_index' = 0
    /\ current_gemini_key_index' = 0
    /\ last_request_age' = request_delay
    /\ UNCHANGED <<mgrConfig, request_lock, running, pc, target_models, mi, att,
                   api_key, idx_tmp, sleep_left, holds, sent, result, stamp_age,
                   prev_gap, mgr_calls>>

\* time passes; only ReadTime, WakeUp and SetLast look at the clock, so it is
\* advanced when some caller is about to
Tick(d) ==
    /\ \E c \in Callers : pc[c] \in {"read_time", "sleeping", "set_last"}
    /\ last_request_age' = Min(last_request_age + d, request_delay)
    /\ sleep_left' = [c \in Callers |-> Max(sleep_left[c] - d, 0)]
    /\ stamp_age' = IF stamp_age = -1 THEN -1 ELSE Min(stamp_age + d, request_delay)
    /\ UNCHANGED <<mgrConfig, mgrIndices, mgrCounts, request_lock, running, pc,
                   target_models, mi, att, api_key, idx_tmp, holds, sent, result,
                   prev_gap>>

\* the manager as constructed with no keys, for the other specifications
MgrInitIdle ==
    /\ openrouter_keys = <<>>
    /\ gemini_keys = <<>>
    /\ genai_installed = FALSE
    /\ threaded = FALSE
    /\ mgr_current_key_index = 0
    /\ current_gemini_key_index = 0
    /\ last_request_age = request_delay
    /\ request_lock = FALSE
    /\ running = None
    /\ pc = [c \in Callers |-> "idle"]
    /\ target_models = [c \in Callers |-> <<>>]
    /\ mi = [c \in Callers |-> 0]
    /\ att = [c \in Callers |-> 0]
    /\ api_key = [c \in Callers |-> None]
    /\ idx_tmp = [c \in Callers |-> 0]
    /\ sleep_left = [c \in Callers |-> 0]
    /\ holds = [c \in Callers |-> FALSE]
    /\ sent = [c \in Callers |-> <<>>]
    /\ result = [c \in Callers |-> NoResult]
    /\ stamp_age = -1
    /\ prev_gap = -1
    /\ mgr_calls = 0
    /\ resets = 0

\* the reasoning service as constructed with no keys, for the other specifications
LLMInitIdle ==
    /\ api_keys = <<>>
    /\ GEMINI_AVAILABLE = FALSE
    /\ enabled = FALSE
    /\ key_failure_count = <<>>
    /\ current_key_index = 0
    /\ client = None
    /\ llm_pc = "idle"
    /\ attempt = 0
    /\ delay = 0
    /\ keys_tried = {}
    /\ llm_reqs = <<>>
    /\ llm_waits = <<>>
    /\ llm_result = NoLlmResult
    /\ retry_exit = None
    /\ llm_calls = 0

(***************************************************************************)
(* Claims about EnhancedAIManager                                          *)
(***************************************************************************)

Range(seq) == {seq[k] : k \in 1 .. Len(seq)}

PriorityOf(name) ==
    (CHOOSE m \in Range(model_hierarchy) : m.name = name).priority

\* keys of the requests the caller's current call has made for a model
ReqKeys(c, name) ==
    {sent[c][k].key : k \in {j \in 1 .. Len(sent[c]) : sent[c][j].model = name}}

RequestedAny(c, names) == \E k \in 1 .. Len(sent[c]) : sent[c][k].model \in names

\* C2 as stated: a call over the whole hierarchy makes its requests in
\* hierarchy order, has tried every OpenRouter key for Grok-4 before it makes
\* a request for Gemini-2.0 via OpenRouter, and has tried every OpenRouter key
\* for both before it makes a request to Gemini direct.
C2_EveryKeyBeforeNextModel ==
    \A c \in Callers :
        target_models[c] = model_hierarchy =>
            /\ \A i, j \in 1 .. Len(sent[c]) :
                  i < j => PriorityOf(sent[c][i].model) <= PriorityOf(sent[c][j].model)
            /\ RequestedAny(c, {GeminiOR, GeminiDirect})
                  => ReqKeys(c, Grok) = Range(openrouter_keys)
            /\ RequestedAny(c, {GeminiDirect})
                  => ReqKeys(c, GeminiOR) = Range(openrouter_keys)

C4_ReleasesSpaced == prev_gap = -1 \/ prev_gap >= request_delay

\* C5 as stated: every step that writes current_key_index,
\* current_gemini_key_index or last_request_time is taken while request_lock
\* is held.
C5_WritesUnderLock ==
    [][(\/ mgr_current_key_index' # mgr_current_key_index
        \/ current_gemini_key_index' # current_gemini_key_index
        \/ last_request_age' < last_request_age) => request_lock]_mgrVars

\* C5 amended: only the read-modify-write of last_request_time in
\* _apply_rate_limit_delay is done inside the caller's "async with
\* self.request_lock" block; the key indices are read and advanced after the
\* caller has left the block, and reset_failed_models assigns all three fields
\* without touching the lock.
C5_OnlyLastRequestTimeUnderLock ==
    [][/\ \A c \in Callers :
            /\ (pc[c] \in {"read_time", "sleeping", "set_last"} /\ pc'[c] # pc[c])
                  => holds[c] /\ request_lock
            /\ (pc[c] \in {"get_key", "store_idx"} /\ pc'[c] # pc[c])
                  => ~holds[c]
       /\ resets' # resets => UNCHANGED <<request_lock, holds>>]_mgrVars

\* witness of C5: a caller has just written last_request_time inside the block
\* after an earlier request of its call advanced the key index outside it
C5_Witness ==
    \E c \in Callers :
        /\ pc[c] = "release"
        /\ holds[c]
        /\ request_lock
        /\ Len(sent[c]) >= 1
        /\ mgr_current_key_index # 0

\* generate_response(prompt, model): runs generate_text with
\* model_override = model and turns its end into a dictionary.
GenerateResponse(model, res) ==
    IF res.kind = "return"
    THEN [success |-> TRUE, content |-> res.value, model |-> model]
    ELSE [success |-> FALSE, content |-> "Erro interno ao gerar resposta",
          model |-> model]

\* C17 as stated: generate_response goes through the model hierarchy: when
\* every key of the requested model (by default x-ai/grok-4-fast:free) has
\* failed, the remaining models of the hierarchy are tried before
\* success = false is returned.
C17_RemainingModelsTried ==
    \A c \in Callers :
        (/\ pc[c] = "idle"
         /\ result[c] # NoResult
         /\ target_models[c] = TargetModels(Grok)
         /\ openrouter_keys # <<>>
         /\ ReqKeys(c, Grok) = Range(openrouter_keys)
         /\ ~GenerateResponse(Grok, result[c]).success) =>
            \A k \in 1 .. Len(model_hierarchy) :
                CanAttempt(model_hierarchy[k]) =>
                    RequestedAny(c, {model_hierarchy[k].name})

\* the requests the caller's current call has made for a model
Requests(c, name) == {k \in 1 .. Len(sent[c]) : sent[c][k].model = name}

\* C20 as stated: a call of _generate_with_openrouter all of whose requests
\* fail makes one request per configured key, and then each of the n keys
\* has been used for exactly one of its requests, also when other calls on
\* the same manager run concurrently (no reset_failed_models in between).
C20_EachKeyUsedOnce ==
    \A c \in Callers : \A name \in {Grok, GeminiOR} :
        (resets = 0 /\ Cardinality(Requests(c, name)) = Len(openrouter_keys)) =>
            ReqKeys(c, name) = Range(openrouter_keys)

(***************************************************************************)
(* Part 3. EnhancedSynthesisEngine                                         *)
(*                                                                         *)
(* The LLM's output is a text made of runs of characters: [k, off, n] is   *)
(* the n characters from offset off of the token of kind k.  Searching,    *)
(* slicing and stripping work on character offsets as the str methods do.  *)
(***************************************************************************)

\* bounds of the model
MaxTokens == 3

MaxSynCalls == 2

LongRun == 4999

\* program constant: raw_text[:5000]
RawLimit == 5000

\* the patterns _process_synthesis_result searches for
FenceJson == "fence-json"

Fence == "fence"

\* "FJ" is the json fence (three backquotes and "json"), "FC" the closing fence
\* (three backquotes), "OBJ" a JSON object without a confidence level, "OBJB"
\* a JSON object whose validacao_dados.nivel_confianca is not a number, "ARR"
\* a JSON array, "NUM" a JSON number, "WS" a newline and "LONG" a long stretch
\* of prose
TokenKinds == {"FJ", "FC", "OBJ", "OBJB", "ARR", "NUM", "WS", "LONG"}

TokLen(k) ==
    CASE k = "FJ" -> 7
      [] k = "FC" -> 3
      [] k = "OBJ" -> 2
      [] k = "OBJB" -> 46
      [] k = "ARR" -> 2
      [] k = "NUM" -> 1
      [] k = "WS" -> 1
      [] k = "LONG" -> LongRun

Token(k) == [k |-> k, off |-> 0, n |-> TokLen(k)]

Texts == UNION {[1 .. m -> {Token(k) : k \in TokenKinds}] : m \in 0 .. MaxTokens}

\* len(text)
RECURSIVE TextLen(_)
TextLen(t) == IF t = <<>> THEN 0 ELSE t[1].n + TextLen(Tail(t))

IsFull(r) == r.off = 0 /\ r.n = TokLen(r.k)

\* the text starts with pat at the beginning of run r
StartsWith(r, pat) ==
    CASE pat = FenceJson -> r.k = "FJ" /\ r.off = 0 /\ r.n = 7
      [] pat = Fence -> r.k \in {"FJ", "FC"} /\ r.off = 0 /\ r.n >= 3
      [] OTHER -> FALSE

RECURSIVE FindFrom(_, _, _)
FindFrom(t, pat, base) ==
    IF t = <<>> THEN -1
    ELSE IF StartsWith(t[1], pat) THEN base
    ELSE FindFrom(Tail(t), pat, base + t[1].n)

\* text.find(pat)
Find(t, pat) == FindFrom(t, pat, 0)

\* text.rfind(pat)
RECURSIVE RFind(_, _)
RFind(t, pat) ==
    IF t = <<>> THEN -1
    ELSE IF StartsWith(t[Len(t)], pat) THEN TextLen(SubSeq(t, 1, Len(t) - 1))
    ELSE RFind(SubSeq(t, 1, Len(t) - 1), pat)

\* pat in text
InText(t, pat) == Find(t, pat) # -1

RECURSIVE SliceFrom(_, _, _, _)
SliceFrom(t, a, b, base) ==
    IF t = <<>> THEN <<>>
    ELSE LET r == t[1]
             lo == Max(a, base)
             hi == Min(b, base + r.n)
             rest == SliceFrom(Tail(t), a, b, base + r.n)
         IN  IF lo < hi
             THEN <<[k |-> r.k, off |-> r.off + (lo - base), n |-> hi - lo]>> \o rest
             ELSE rest

\* text[a:b]
PySlice(t, a, b) ==
    LET norm(i) == IF i < 0 THEN Max(TextLen(t) + i, 0) ELSE i
    IN  SliceFrom(t, norm(a), norm(b), 0)

RECURSIVE LStrip(_)
LStrip(t) == IF t # <<>> /\ t[1].k = "WS" THEN LStrip(Tail(t)) ELSE t

RECURSIVE RStrip(_)
RStrip(t) ==
    IF t # <<>> /\ t[Len(t)].k = "WS" THEN RStrip(SubSeq(t, 1, Len(t) - 1)) ELSE t

\* text.strip()
Strip(t) == LStrip(RStrip(t))

JsonType(k) ==
    CASE k \in {"OBJ", "OBJB"} -> "dict"
      [] k = "ARR" -> "list"
      [] k = "NUM" -> "int"
      [] OTHER -> None

\* json.loads(text): the value, or JSONDecodeError (ok = FALSE)
JsonLoads(t) ==
    LET s == Strip(t)
    IN  IF Len(s) = 1 /\ IsFull(s[1]) /\ JsonType(s[1].k) # None
        THEN [ok |-> TRUE, type |-> JsonType(s[1].k), src |-> s[1].k]
        ELSE [ok |-> FALSE, type |-> None, src |-> None]

\* a value _process_synthesis_result returns
Data(type, src, meta, fallback, raw) ==
    [type |-> type, src |-> src, metadata_sintese |-> meta,
     fallback_mode |-> fallback, raw_synthesis |-> raw]

NoData == Data(None, None, FALSE, FALSE, <<>>)

CreateFallbackUntruncated(raw_text) == Data("dict", "stub", FALSE, TRUE, raw_text)

\* _create_enhanced_fallback_synthesis
CreateEnhancedFallbackSynthesis(raw_text) ==
    Data("dict", "stub", FALSE, TRUE, PySlice(raw_text, 0, RawLimit))

\* _process_synthesis_result for a str
ProcessSynthesisResult(synthesis_result) ==
    IF InText(synthesis_result, FenceJson)
    THEN LET start == Find(synthesis_result, FenceJson) + 7
             end == RFind(synthesis_result, Fence)
             json_text == Strip(PySlice(synthesis_result, start, end))
             parsed_data == JsonLoads(json_text)
         IN  IF ~parsed_data.ok
             THEN CreateEnhancedFallbackSynthesis(synthesis_result)
             ELSE IF parsed_data.type # "dict"
                  THEN CreateEnhancedFallbackSynthesis(synthesis_result)
                  ELSE Data("dict", parsed_data.src, TRUE, FALSE, <<>>)
    ELSE LET parsed == JsonLoads(synthesis_result)
         IN  IF ~parsed.ok
             THEN CreateEnhancedFallbackSynthesis(synthesis_result)
             ELSE IF parsed.type = "int"
                  THEN CreateEnhancedFallbackSynthesis(synthesis_result)
                  ELSE Data(parsed.type, parsed.src, FALSE, FALSE, <<>>)

VARIABLES
    ai_manager,      \* self.ai_manager is set (the manager could be imported)
    llm_output,      \* the text generate_with_active_search returns
    processed,       \* value last returned by _process_synthesis_result
    metrics_cache,   \* self.metrics_cache has an entry of the session
    syn_op,          \* the operation last run, with its massive-data arguments
    syn_outcome,     \* how that operation ended
    syn_calls        \* operations run

synVars == <<ai_manager, llm_output, processed, metrics_cache, syn_op, syn_outcome,
             syn_calls>>

\* values of the consolidation file and of the massive-data arguments: None,
\* {} ("empty"), a dict without 'data' and a dict with 'data'
Consolidations == {None, "empty", "data"}

MassiveInputs == {None, "empty", "no_data", "data"}

\* what fails first after the checks of the input: the AI call, saving the
\* synthesis, generating the report, or nothing
Failures == {None, "ai", "save", "report"}

\* Python truth value of a dict-or-None
TruthyDict(d) == d \notin {None, "empty"}

Returned(success, error_type, data) ==
    [kind |-> "return", success |-> success, error_type |-> error_type,
     exc |-> None, data |-> data]

Raised(exc) ==
    [kind |-> "raise", success |-> FALSE, error_type |-> None,
     exc |-> exc, data |-> NoData]

NoOutcome ==
    [kind |-> "none", success |-> FALSE, error_type |-> None,
     exc |-> None, data |-> NoData]

Op(name, mdj, md) == [name |-> name, massive_data_json |-> mdj, massive_data |-> md]

\* _create_error_response
CreateErrorResponse(error_type) == Returned(FALSE, error_type, NoData)

\* float(processed_synthesis.get('validacao_dados', {})
\*       .get('nivel_confianca', '0%').rstrip('%')) succeeds
ConfidenceLevelParses(processed_synthesis) ==
    /\ processed_synthesis.type = "dict"
    /\ processed_synthesis.src # "OBJB"

\* how a try block ended: the exception class that left it (None: it ran to
\* its return), whether _process_synthesis_result and the metrics_cache
\* assignment were reached, and the synthesis data
Body(exc, did_process, cached, data) ==
    [exc |-> exc, did_process |-> did_process, cached |-> cached, data |-> data]

\* the try block of execute_deep_specialization_study
StudyBody(consolidacao, failure) ==
    IF ~TruthyDict(consolidacao)
    THEN Body("DataLoadError", FALSE, FALSE, NoData)
    ELSE IF ~ai_manager
    THEN Body("SynthesisExecutionError", FALSE, FALSE, NoData)
    ELSE IF failure = "ai"
    THEN Body("Exception", FALSE, FALSE, NoData)
    ELSE LET processed_synthesis == ProcessSynthesisResult(llm_output)
         IN  IF ~ConfidenceLevelParses(processed_synthesis)
             THEN Body("Exception", TRUE, FALSE, NoData)
             ELSE IF failure \in {"save", "report"}
             THEN Body("Exception", TRUE, TRUE, NoData)
             ELSE Body(None, TRUE, TRUE, processed_synthesis)

StudyExceptNoCatchAll(exc) ==
    CASE exc = "DataLoadError" -> CreateErrorResponse("data_load_error")
      [] exc = "SynthesisExecutionError" -> CreateErrorResponse("execution_error")
      [] OTHER -> Raised(exc)

\* the except clauses of execute_deep_specialization_study
StudyExcept(exc) ==
    CASE exc = "DataLoadError" -> CreateErrorResponse("data_load_error")
      [] exc = "SynthesisExecutionError" -> CreateErrorResponse("execution_error")
      [] OTHER -> CreateErrorResponse("unexpected_error")

\* the try block of execute_enhanced_synthesis_with_massive_data
MassiveBody(data_input, failure) ==
    IF data_input = "no_data"
    THEN Body("DataLoadError", FALSE, FALSE, NoData)
    ELSE IF ~ai_manager
    THEN Body("SynthesisExecutionError", FALSE, FALSE, NoData)
    ELSE IF failure = "ai"
    THEN Body("Exception", FALSE, FALSE, NoData)
    ELSE LET processed_synthesis == ProcessSynthesisResult(llm_output)
         IN  IF ~ConfidenceLevelParses(processed_synthesis)
             THEN Body("Exception", TRUE, FALSE, NoData)
             ELSE IF failure \in {"save", "report"}
             THEN Body("Exception", TRUE, TRUE, NoData)
             ELSE Body(None, TRUE, TRUE, processed_synthesis)

\* the except clauses of execute_enhanced_synthesis_with_massive_data
MassiveExcept(exc) ==
    CASE exc = "DataLoadError" -> CreateErrorResponse("massive_data_error")
      [] exc = "SynthesisExecutionError" -> CreateErrorResponse("execution_error")
      [] OTHER -> CreateErrorResponse("unexpected_error")

SynInit ==
    /\ ai_manager \in BOOLEAN
    /\ llm_output \in Texts
    /\ processed = NoData
    /\ metrics_cache = FALSE
    /\ syn_op = Op(None, None, None)
    /\ syn_outcome = NoOutcome
    /\ syn_calls = 0

\* _process_synthesis_result is applied to the LLM's output
ProcessSynthesisResultCall ==
    /\ syn_calls < MaxSynCalls
    /\ syn_calls' = syn_calls + 1
    /\ syn_op' = Op("process", None, None)
    /\ processed' = ProcessSynthesisResult(llm_output)
    /\ syn_outcome' = Returned(TRUE, None, ProcessSynthesisResult(llm_output))
    /\ UNCHANGED <<ai_manager, llm_output, metrics_cache>>

\* execute_deep_specialization_study
ExecuteDeepSpecializationStudy(consolidacao, failure) ==
    LET body == StudyBody(consolidacao, failure)
    IN  /\ syn_calls < MaxSynCalls
        /\ syn_calls' = syn_calls + 1
        /\ syn_op' = Op("study", None, None)
        /\ processed' = IF body.did_process
                        THEN ProcessSynthesisResult(llm_output)
                        ELSE processed
        /\ metrics_cache' = (metrics_cache \/ body.cached)
        /\ syn_outcome' = IF body.exc = None
                          THEN Returned(TRUE, None, body.data)
                          ELSE StudyExcept(body.exc)
        /\ UNCHANGED <<ai_manager, llm_output>>

\* execute_enhanced_synthesis_with_massive_data
ExecuteEnhancedSynthesisWithMassiveData(massive_data_json, massive_data, failure) ==
    LET data_input == IF TruthyDict(massive_data_json)
                      THEN massive_data_json
                      ELSE massive_data
        body == MassiveBody(data_input, failure)
    IN  /\ syn_calls < MaxSynCalls
        /\ syn_calls' = syn_calls + 1
        /\ syn_op' = Op("massive", massive_data_json, massive_data)
        /\ IF ~TruthyDict(data_input)
           THEN /\ syn_outcome' = Raised("DataLoadError")
                /\ UNCHANGED <<processed, metrics_cache>>
           ELSE /\ processed' = IF body.did_process
                                THEN ProcessSynthesisResult(llm_output)
                                ELSE processed
                /\ metrics_cache' = (metrics_cache \/ body.cached)
                /\ syn_outcome' = IF body.exc = None
                                  THEN Returned(TRUE, None, body.data)
                                  ELSE MassiveExcept(body.exc)
        /\ UNCHANGED <<ai_manager, llm_output>>

\* the engine as constructed without a manager, for the other specifications
SynInitIdle ==
    /\ ai_manager = FALSE
    /\ llm_output = <<>>
    /\ processed = NoData
    /\ metrics_cache = FALSE
    /\ syn_op = Op(None, None, None)
    /\ syn_outcome = NoOutcome
    /\ syn_calls = 0

(***************************************************************************)
(* Claims about EnhancedSynthesisEngine                                    *)
(***************************************************************************)

\* the text between the first json fence and the last fence
FencedBlock(t) == PySlice(t, Find(t, FenceJson) + 7, RFind(t, Fence))

\* neither the fenced block nor the whole text is JSON
NotParseable(t) ==
    /\ ~JsonLoads(t).ok
    /\ ~(InText(t, FenceJson) /\ JsonLoads(FencedBlock(t)).ok)

IsPrefix(p, t) == p = PySlice(t, 0, TextLen(p))

\* C6: for an LLM output that is not parseable as JSON, neither the fenced
\* block nor the whole text, _process_synthesis_result returns the default
\* stub with fallback_mode true and raw_synthesis a prefix of the output of at
\* most 5000 characters, and does not raise.
C6_UnparseableGivesFallback ==
    (syn_op.name = "process" /\ NotParseable(llm_output)) =>
        /\ syn_outcome.kind = "return"
        /\ processed.type = "dict"
        /\ processed.src = "stub"
        /\ processed.fallback_mode
        /\ IsPrefix(processed.raw_synthesis, llm_output)
        /\ TextLen(processed.raw_synthesis) = Min(TextLen(llm_output), RawLimit)

\* witness of C6: an output longer than 5000 characters with an unparseable
\* fenced block was turned into the stub
C6_Witness ==
    /\ syn_op.name = "process"
    /\ InText(llm_output, FenceJson)
    /\ NotParseable(llm_output)
    /\ TextLen(llm_output) > RawLimit
    /\ processed.fallback_mode
    /\ TextLen(processed.raw_synthesis) = RawLimit

\* C9: execute_deep_specialization_study never raises; when it does not
\* succeed it returns success = false with error_type one of data_load_error,
\* execution_error and unexpected_error.
C9_StudyNeverRaises ==
    syn_op.name = "study" =>
        /\ syn_outcome.kind = "return"
        /\ \/ syn_outcome.success /\ syn_outcome.error_type = None
           \/ /\ ~syn_outcome.success
              /\ syn_outcome.error_type \in
                    {"data_load_error", "execution_error", "unexpected_error"}

\* witness of C9: the metric parsing failed on the synthesis data and the
\* study returned unexpected_error
C9_Witness ==
    /\ syn_op.name = "study"
    /\ processed.type = "list"
    /\ syn_outcome.kind = "return"
    /\ ~syn_outcome.success
    /\ syn_outcome.error_type = "unexpected_error"
    /\ ~metrics_cache

\* C10 as stated: when neither massive_data_json nor massive_data is given,
\* or the data given lacks the 'data' key,
\* execute_enhanced_synthesis_with_massive_data returns success = false and
\* does not raise.
C10_MissingDataReturnsFailure ==
    (/\ syn_op.name = "massive"
     /\ LET data_input == IF TruthyDict(syn_op.massive_data_json)
                          THEN syn_op.massive_data_json
                          ELSE syn_op.massive_data
        IN  data_input \in {None, "empty", "no_data"}) =>
        /\ syn_outcome.kind = "return"
        /\ ~syn_outcome.success

(***************************************************************************)
(* Part 4. Routes of the analysis blueprint (routes/analysis.py) and the   *)
(* session artifacts on disk                                               *)
(*                                                                         *)
(* Flask runs one handler per request.  A handler is synchronous, so one   *)
(* action is one whole handler call: it reads the JSON body, calls the     *)
(* services in the order of the code, and returns a response.  The events  *)
(* of the call (event loops created and closed, services called, steps of  *)
(* the workflow) are recorded in rt_trace in the order they happen.        *)
(* Services whose code is outside src/ (search, collector, predictive      *)
(* engine, module processor, report generator, services.ai_manager) either *)
(* return or raise: the input "failure" names the one that raises.         *)
(***************************************************************************)

MaxRouteReqs == 2

Absent == "<absent>"

ClientSessionIds == {"s1", "s2"}

FieldValues == {Absent, None, "", " ", "seg"}

SessionIdValues == {Absent, None, ""} \cup ClientSessionIds

VARIABLES
    fs_dirs,       \* session ids whose directory analyses_data/<id> exists
    fs_files,      \* artifact files written: [session, path]
    rt_route,      \* the handler of the last request
    rt_data,       \* its JSON body
    rt_failure,    \* the services that raised for it (None: none did)
    rt_session,    \* the session id the handler generated, or None
    rt_trace,      \* the events of the handler call, in order
    rt_steps,      \* workflow_complete: the steps run and what they reported
    rt_response,   \* the response returned
    rt_reqs        \* requests handled (also the clock of the session ids)

rtVars == <<fs_dirs, fs_files, rt_route, rt_data, rt_failure, rt_session,
            rt_trace, rt_steps, rt_response, rt_reqs>>

\* request.get_json(): null, a non-empty array, or an object with the keys
\* the handlers read.
JsonBody(json, segmento, produto, session_id) ==
    [json |-> json, segmento |-> segmento, produto |-> produto,
     session_id |-> session_id]

NoBody == JsonBody("null", Absent, Absent, Absent)

AnalysisBodies ==
    {JsonBody("null", Absent, Absent, Absent),
     JsonBody("array", Absent, Absent, Absent)}
    \cup {JsonBody("object", s, p, Absent) : s, p \in FieldValues}

SessionBodies ==
    {JsonBody("null", Absent, Absent, Absent),
     JsonBody("array", Absent, Absent, Absent)}
    \cup {JsonBody("object", Absent, Absent, sid) : sid \in SessionIdValues}

\* bool(data): None and the empty object are falsy.
TruthyJson(data) ==
    /\ data.json # "null"
    /\ data.json = "object" =>
          \E k \in {"segmento", "produto", "session_id"} : data[k] # Absent

\* dict.get(key, default)
DictGet(data, key, default) ==
    IF data[key] = Absent THEN default ELSE data[key]

\* str.strip() of the field values.
StripField(v) == IF v = " " THEN "" ELSE v

\* f"session_{int(time.time() * 1000)}_{uuid.uuid4().hex[:8]}"
GenerateSessionId(clock) == "session_" \o ToString(clock)

\* jsonify(...) with its status; tuple says that the handler returned the
\* pair (response, status) and not a bare Response object.
Response(status, success, session_id, tuple) ==
    [status |-> status, success |-> success, session_id |-> session_id,
     tuple |-> tuple]

NoResponse == Response(0, Absent, Absent, FALSE)

\* What one handler call did.
Handled(trace, response, files, steps) ==
    [trace |-> trace, response |-> response, files |-> files, steps |-> steps]

ArtifactFile(session_id, path) == [session |-> session_id, path |-> path]

\* The services a try block calls, up to and including the first that raises.
RECURSIVE Ran(_, _)
Ran(steps, raising) ==
    IF steps = <<>> THEN <<>>
    ELSE IF Head(steps) \in raising THEN <<Head(steps)>>
    ELSE <<Head(steps)>> \o Ran(Tail(steps), raising)

RaisedIn(steps, raising) == Range(steps) \cap raising # {}

LoopCloseOnSuccessOnly(raised) == IF raised THEN <<>> ELSE <<"loop.close">>

\* finally: loop.close()
LoopClose(raised) == <<"loop.close">>

\* loop = asyncio.new_event_loop(); asyncio.set_event_loop(loop)
\* try: <steps> finally: loop.close()
WithEventLoop(steps, raising) ==
    <<"new_event_loop">> \o Ran(steps, raising)
        \o LoopClose(RaisedIn(steps, raising))

\* The parameters of EnhancedSynthesisEngine.execute_enhanced_synthesis.
ExecuteEnhancedSynthesisParams == {"session_id", "synthesis_type"}

\* The coroutine methods of EnhancedSynthesisEngine that routes call by name.
EngineMethods ==
    {"execute_deep_specialization_study", "execute_enhanced_synthesis",
     "execute_enhanced_synthesis_with_massive_data"}

\* A call with keyword arguments raises TypeError unless each names a
\* parameter.
CallBinds(kwargs, params) == kwargs \subseteq params

Failing(failure) == IF failure = None THEN {} ELSE {failure}

\* execute_enhanced_analysis, the inner function of
\* execute_complete_analysis: one loop for the five phases.  The call
\* execute_enhanced_synthesis(session_id=..., search_results=...) binds its
\* keyword arguments first; execute_external_ai_verification catches all
\* its exceptions.
ExecuteEnhancedAnalysis(failure) ==
    LET steps == <<"search", "synthesis", "verification", "predictive", "modules">>
        raising ==
            (Failing(failure) \ {"verification"})
            \cup (IF CallBinds({"session_id", "search_results"},
                               ExecuteEnhancedSynthesisParams)
                  THEN {} ELSE {"synthesis"})
    IN  [trace |-> WithEventLoop(steps, raising),
         success |-> ~RaisedIn(steps, raising)]

ExecuteCompleteAnalysisBody(data, failure, session_id) ==
    IF ~TruthyJson(data)
    THEN Handled(<<>>, Response(400, Absent, Absent, TRUE), {}, <<>>)
    ELSE IF \/ data.json # "object"
            \/ DictGet(data, "segmento", "") = None
            \/ DictGet(data, "produto", "") = None
    THEN \* AttributeError of .get or .strip, caught at line 394
         Handled(<<>>, Response(500, "false", Absent, TRUE), {}, <<>>)
    ELSE
    LET segmento == StripField(DictGet(data, "segmento", ""))
        produto == StripField(DictGet(data, "produto", ""))
        analysis_results == ExecuteEnhancedAnalysis(failure)
    IN  IF segmento = "" /\ produto = ""
        THEN Handled(<<>>, Response(400, Absent, Absent, TRUE), {}, <<>>)
        ELSE IF analysis_results.success
        THEN Handled(analysis_results.trace,
                     Response(200, "true", session_id, TRUE), {}, <<>>)
        ELSE Handled(analysis_results.trace,
                     Response(500, "false", session_id, TRUE), {}, <<>>)

StartCollectionBody(data, failure, generated) ==
    IF data.json # "object"
    THEN Handled(<<>>, Response(500, "false", Absent, TRUE), {}, <<>>)
    ELSE
    LET given == DictGet(data, "session_id", None)
        session_id == IF Truthy(given) THEN given ELSE generated
        steps == <<"collector">>
    IN  IF RaisedIn(steps, Failing(failure))
        THEN Handled(WithEventLoop(steps, Failing(failure)),
                     Response(500, "false", Absent, TRUE), {}, <<>>)
        ELSE Handled(WithEventLoop(steps, Failing(failure)),
                     Response(200, "true", session_id, FALSE), {}, <<>>)

\* enhanced_synthesis_engine.analyze_and_synthesize(session_id): the
\* attribute is looked up inside the try block.
StartAnalysisBody(data, failure) ==
    IF data.json # "object"
    THEN Handled(<<>>, Response(500, "false", Absent, TRUE), {}, <<>>)
    ELSE
    LET session_id == DictGet(data, "session_id", None)
        steps == <<"synthesis">>
        raising == IF "analyze_and_synthesize" \in EngineMethods
                   THEN Failing(failure) ELSE {"synthesis"}
    IN  IF ~Truthy(session_id)
        THEN Handled(<<>>, Response(400, "false", Absent, TRUE), {}, <<>>)
        ELSE IF RaisedIn(steps, raising)
        THEN Handled(WithEventLoop(steps, raising),
                     Response(500, "false", Absent, TRUE), {}, <<>>)
        ELSE Handled(WithEventLoop(steps, raising),
                     Response(200, "true", session_id, FALSE), {}, <<>>)

WorkflowStep1Body(data, failure, session_id) ==
    IF data.json # "object"
    THEN Handled(<<>>, Response(500, "false", Absent, TRUE), {}, <<>>)
    ELSE IF failure = "collector"
    THEN Handled(<<"collector">>, Response(500, "false", Absent, TRUE), {}, <<>>)
    ELSE Handled(<<"collector">>, Response(200, "true", session_id, FALSE),
                 {}, <<>>)

PathExistsAlways(session_id, dirs) == TRUE

\* os.path.exists(f"analyses_data/{session_id}")
PathExists(session_id, dirs) == session_id \in dirs

WorkflowStep2Body(data, failure, dirs) ==
    IF data.json # "object"
    THEN Handled(<<>>, Response(500, "false", Absent, TRUE), {}, <<>>)
    ELSE
    LET session_id == DictGet(data, "session_id", None)
    IN  IF ~Truthy(session_id)
        THEN Handled(<<>>, Response(400, "false", Absent, TRUE), {}, <<>>)
        ELSE IF ~PathExists(session_id, dirs)
        THEN Handled(<<>>, Response(404, "false", Absent, TRUE), {}, <<>>)
        ELSE IF failure = "import"
        THEN Handled(<<>>, Response(500, "false", Absent, TRUE), {}, <<>>)
        ELSE IF failure = "ai_manager"
        THEN Handled(<<"ai_manager">>, Response(500, "false", Absent, TRUE),
                     {}, <<>>)
        ELSE Handled(<<"ai_manager">>,
                     Response(200, "true", session_id, FALSE),
                     {ArtifactFile(session_id,
                         <<"analyses_data", session_id, "resumo_sintese.json">>)},
                     <<>>)

\* HTMLReportConverter._salvar_arquivo_html, with the default nome_arquivo
\* of converter_relatorio_para_html.
SalvarArquivoHtml(session_id, nome_arquivo) ==
    ArtifactFile(session_id,
                 <<"sessions", session_id, "reports", nome_arquivo \o ".html">>)

WorkflowStep3Body(data, failure) ==
    IF data.json # "object"
    THEN Handled(<<>>, Response(500, "false", Absent, TRUE), {}, <<>>)
    ELSE
    LET session_id == DictGet(data, "session_id", None)
        steps == <<"modules", "report">>
        html == WithEventLoop(<<"html">>, Failing(failure))
        files == IF failure = "html" THEN {}
                 ELSE {SalvarArquivoHtml(session_id, "relatorio")}
    IN  IF ~Truthy(session_id)
        THEN Handled(<<>>, Response(400, "false", Absent, TRUE), {}, <<>>)
        ELSE IF RaisedIn(steps, Failing(failure))
        THEN Handled(Ran(steps, Failing(failure)),
                     Response(500, "false", Absent, TRUE), {}, <<>>)
        ELSE IF failure = "jsonify"
        THEN Handled(steps \o html, Response(500, "false", Absent, TRUE),
                     files, <<>>)
        ELSE Handled(steps \o html, Response(200, "true", session_id, FALSE),
                     files, <<>>)

\* What one step of workflow_complete did: the success field of its answer
\* and the session_id it worked on.
StepReport(name, response, session_id) ==
    [step |-> name, success |-> response.success, session_id |-> session_id]

StepFailedNever(response) == FALSE

\* step_response.get_json() raises AttributeError on a (response, status)
\* pair; otherwise "if not step_data.get('success')" stops the workflow.
StepFailed(response) == response.tuple \/ response.success # "true"

\* What workflow_complete returns after a step that failed.
AfterFailedStep(response) ==
    IF response.tuple THEN Response(500, "false", Absent, TRUE) ELSE response

\* The three steps read the body of the same request.
WorkflowCompleteBody(data, f1, f2, f3, session_id, dirs) ==
    LET r1 == WorkflowStep1Body(data, f1, session_id)
        r2 == WorkflowStep2Body(data, f2, dirs)
        r3 == WorkflowStep3Body(data, f3)
        s1 == <<StepReport("step1", r1.response, session_id)>>
        s2 == s1 \o <<StepReport("step2", r2.response,
                                 DictGet(data, "session_id", None))>>
        s3 == s2 \o <<StepReport("step3", r3.response,
                                 DictGet(data, "session_id", None))>>
    IN  IF StepFailed(r1.response)
        THEN Handled(r1.trace, AfterFailedStep(r1.response), r1.files, s1)
        ELSE IF StepFailed(r2.response)
        THEN Handled(r1.trace \o r2.trace, AfterFailedStep(r2.response),
                     r1.files \cup r2.files, s2)
        ELSE Handled(r1.trace \o r2.trace \o r3.trace, r3.response,
                     r1.files \cup r2.files \cup r3.files, s3)

SynthesisTypes == {"master_synthesis", "behavioral_analysis"}

\* EnhancedSynthesisEngine._save_synthesis_result: the files it writes.
SaveSynthesisResultFiles(session_id, synthesis_type) ==
    {ArtifactFile(session_id,
        <<"analyses_data", session_id, "sintese_" \o synthesis_type \o ".json">>)}
    \cup (IF synthesis_type = "master_synthesis"
          THEN {ArtifactFile(session_id,
                   <<"analyses_data", session_id, "resumo_sintese.json">>)}
          ELSE {})

\* EnhancedSynthesisEngine.export_synthesis_to_formats with the default
\* formats ['json', 'md']: the Markdown report, when the synthesis exists.
ExportSynthesisFiles(session_id, files) ==
    IF ArtifactFile(session_id,
          <<"analyses_data", session_id, "sintese_master_synthesis.json">>)
          \in files
    THEN {ArtifactFile(session_id,
             <<"analyses_data", session_id, "relatorio_sintese.md">>)}
    ELSE {}

RtInit ==
    /\ fs_dirs \in SUBSET ClientSessionIds
    /\ fs_files = {}
    /\ rt_route = "none"
    /\ rt_data = NoBody
    /\ rt_failure = <<>>
    /\ rt_session = None
    /\ rt_trace = <<>>
    /\ rt_steps = <<>>
    /\ rt_response = NoResponse
    /\ rt_reqs = 0

RtInitIdle ==
    /\ fs_dirs = {}
    /\ fs_files = {}
    /\ rt_route = "none"
    /\ rt_data = NoBody
    /\ rt_failure = <<>>
    /\ rt_session = None
    /\ rt_trace = <<>>
    /\ rt_steps = <<>>
    /\ rt_response = NoResponse
    /\ rt_reqs = 0

\* One request: the handler named route ran on data and did h.
Handle(route, data, failure, session_id, h) ==
    /\ rt_reqs < MaxRouteReqs
    /\ rt_reqs' = rt_reqs + 1
    /\ rt_route' = route
    /\ rt_data' = data
    /\ rt_failure' = failure
    /\ rt_session' = session_id
    /\ rt_trace' = h.trace
    /\ rt_steps' = h.steps
    /\ rt_response' = h.response
    /\ fs_files' = fs_files \cup h.files

ExecuteCompleteAnalysis(data, failure) ==
    LET session_id == GenerateSessionId(rt_reqs + 1)
    IN  /\ Handle("execute_complete_analysis", data, <<failure>>,
                  IF TruthyJson(data) THEN session_id ELSE None,
                  ExecuteCompleteAnalysisBody(data, failure, session_id))
        /\ UNCHANGED fs_dirs

StartCollection(data, failure) ==
    LET session_id == GenerateSessionId(rt_reqs + 1)
    IN  /\ Handle("start_collection", data, <<failure>>,
                  IF data.json = "object"
                     /\ ~Truthy(DictGet(data, "session_id", None))
                  THEN session_id ELSE None,
                  StartCollectionBody(data, failure, session_id))
        /\ UNCHANGED fs_dirs

StartAnalysis(data, failure) ==
    /\ Handle("start_analysis", data, <<failure>>, None,
              StartAnalysisBody(data, failure))
    /\ UNCHANGED fs_dirs

WorkflowStep1(data, failure) ==
    LET session_id == GenerateSessionId(rt_reqs + 1)
    IN  /\ Handle("workflow_step1", data, <<failure>>, session_id,
                  WorkflowStep1Body(data, failure, session_id))
        /\ UNCHANGED fs_dirs

WorkflowStep2(data, failure) ==
    /\ Handle("workflow_step2", data, <<failure>>, None,
              WorkflowStep2Body(data, failure, fs_dirs))
    /\ UNCHANGED fs_dirs

WorkflowStep3(data, failure) ==
    /\ Handle("workflow_step3", data, <<failure>>, None,
              WorkflowStep3Body(data, failure))
    /\ UNCHANGED fs_dirs

WorkflowComplete(data, f1, f2, f3) ==
    LET session_id == GenerateSessionId(rt_reqs + 1)
    IN  /\ Handle("workflow_complete", data, <<f1, f2, f3>>, session_id,
                  WorkflowCompleteBody(data, f1, f2, f3, session_id, fs_dirs))
        /\ UNCHANGED fs_dirs

\* session_dir.mkdir(parents=True, exist_ok=True) and the two json.dump.
SaveSynthesisResult(session_id, synthesis_type) ==
    /\ Handle("_save_synthesis_result", NoBody, <<>>, None,
              Handled(<<>>, NoResponse,
                      SaveSynthesisResultFiles(session_id, synthesis_type), <<>>))
    /\ fs_dirs' = fs_dirs \cup {session_id}

ExportSynthesisToFormats(session_id) ==
    /\ Handle("export_synthesis_to_formats", NoBody, <<>>, None,
              Handled(<<>>, NoResponse,
                      ExportSynthesisFiles(session_id, fs_files), <<>>))
    /\ UNCHANGED fs_dirs

(***************************************************************************)
(* Claims about the routes and the session artifacts                       *)
(***************************************************************************)

HasText(v) == v \notin {Absent, None, "", " "}

\* C12 as stated: when the search, synthesis, verification, predictive and
\* module-generation services all succeed, POST /execute_complete_analysis
\* with a body containing segmento or produto responds HTTP 200 with
\* success = true and the generated session_id.
C12_CompleteAnalysisSucceeds ==
    (/\ rt_route = "execute_complete_analysis"
     /\ rt_failure = <<None>>
     /\ rt_data.json = "object"
     /\ rt_data.segmento # None /\ rt_data.produto # None
     /\ HasText(rt_data.segmento) \/ HasText(rt_data.produto)) =>
        /\ rt_response.status = 200
        /\ rt_response.success = "true"
        /\ rt_response.session_id = rt_session

\* C13: POST /workflow/step2 with a session_id whose directory
\* analyses_data/<session_id> does not exist is answered HTTP 404 with
\* success = false, and the AI manager is not called.
C13_Step2MissingDirectoryIs404 ==
    (/\ rt_route = "workflow_step2"
     /\ rt_data.json = "object"
     /\ rt_data.session_id \in ClientSessionIds \ fs_dirs) =>
        /\ rt_response.status = 404
        /\ rt_response.success = "false"
        /\ "ai_manager" \notin Range(rt_trace)

C13_Witness ==
    /\ rt_route = "workflow_step2"
    /\ rt_data.session_id = "s1"
    /\ "s1" \notin fs_dirs
    /\ "s2" \in fs_dirs
    /\ rt_failure = <<None>>
    /\ rt_response.status = 404

CarriesNoSessionId(data) ==
    data.json # "object" \/ data.session_id \in {Absent, None, ""}

\* C14 as stated: every request to /analysis/start, /workflow/step2 or
\* /workflow/step3 that carries no session_id is answered HTTP 400 with
\* success = false, and no synthesis or module-generation service is called.
C14_NoSessionIdIs400 ==
    (/\ rt_route \in {"start_analysis", "workflow_step2", "workflow_step3"}
     /\ CarriesNoSessionId(rt_data)) =>
        /\ rt_response.status = 400
        /\ rt_response.success = "false"
        /\ Range(rt_trace) \cap {"synthesis", "ai_manager", "modules", "report"} = {}

\* C15: every event loop a route handler creates is closed before the
\* handler returns, on the success path and on every exception path: each
\* new_event_loop in the trace of a call is followed by a loop.close before
\* the next loop is created and before the trace ends.
C15_EveryLoopClosed ==
    \A i \in 1 .. Len(rt_trace) :
        rt_trace[i] = "new_event_loop" =>
            \E j \in i + 1 .. Len(rt_trace) :
                /\ rt_trace[j] = "loop.close"
                /\ \A k \in i + 1 .. j - 1 : rt_trace[k] # "new_event_loop"

C15_Witness ==
    /\ rt_route = "execute_complete_analysis"
    /\ rt_response.status = 500
    /\ "new_event_loop" \in Range(rt_trace)
    /\ "loop.close" \in Range(rt_trace)

\* C16 as stated: every artifact file written for a session is created
\* inside analyses_data/<session_id>/ and nowhere else.
C16_ArtifactsInSessionDirectory ==
    \A f \in fs_files :
        /\ Len(f.path) = 3
        /\ f.path[1] = "analyses_data"
        /\ f.path[2] = f.session

\* C18: workflow_complete runs step 2 only if step 1 reported success and
\* step 3 only if step 2 reported success; the steps run in order and no
\* step runs after one that failed.
C18_NoStepAfterFailedStep ==
    rt_route = "workflow_complete" =>
        /\ Len(rt_steps) \in 1 .. 3
        /\ \A i \in 1 .. Len(rt_steps) :
              rt_steps[i].step = <<"step1", "step2", "step3">>[i]
        /\ \A i \in 2 .. Len(rt_steps) : rt_steps[i - 1].success = "true"
        /\ "ai_manager" \in Range(rt_trace) => rt_steps[1].success = "true"
        /\ "modules" \in Range(rt_trace) =>
              Len(rt_steps) = 3 /\ rt_steps[2].success = "true"

C18_Witness ==
    /\ rt_route = "workflow_complete"
    /\ Len(rt_steps) = 2
    /\ rt_steps[1].success = "true"
    /\ rt_steps[2].success = "false"
    /\ "modules" \notin Range(rt_trace)

\* C26: within one POST /workflow/complete, every step after step 1 works
\* on the session_id that step 1 generated in that request.
C26_StepsUseGeneratedSessionId ==
    rt_route = "workflow_complete" =>
        \A i \in 2 .. Len(rt_steps) : rt_steps[i].session_id = rt_session

(***************************************************************************)
(* Part 5. ARQV30DesktopApp: the Flask server thread (arqv30_desktop.py)   *)
(*                                                                         *)
(* The Tk main loop runs the button handlers and the callbacks queued with *)
(* after(); start_server starts a daemon thread that creates the Flask app *)
(* and blocks in app.run.  A daemon thread ends when its function returns  *)
(* or when the process exits after the window is destroyed.                *)
(***************************************************************************)

MaxStarts == 2

MaxServed == 2

Threads == 1 .. MaxStarts

VARIABLES
    server_running,   \* self.server_running
    server_thread,    \* self.server_thread: the last thread started, 0 for None
    thread_state,     \* of each thread: "none", "started", "created", "serving", "terminated"
    port_owner,       \* the thread whose Flask server listens on host:port, 0 for none
    after_calls,      \* callbacks queued with self.after, in order
    server_button,    \* state of the server button
    stopped,          \* threads that were running when stop_server was called
    served,           \* requests served since stop_server was last called
    destroyed         \* the window is destroyed and the process has ended

dtVars == <<server_running, server_thread, thread_state, port_owner,
            after_calls, server_button, stopped, served, destroyed>>

DesktopInit ==
    /\ server_running = FALSE
    /\ server_thread = 0
    /\ thread_state = [t \in Threads |-> "none"]
    /\ port_owner = 0
    /\ after_calls = <<>>
    /\ server_button = "normal"
    /\ stopped = {}
    /\ served = 0
    /\ destroyed = FALSE

\* update_server_status(running)
UpdateServerStatus(is_running) ==
    /\ server_running' = is_running
    /\ server_button' = "normal"

\* start_server: disables the button and starts the thread of run_server
StartServer ==
    /\ server_thread < MaxStarts
    /\ server_button' = "disabled"
    /\ server_thread' = server_thread + 1
    /\ thread_state' = [thread_state EXCEPT ![server_thread + 1] = "started"]
    /\ UNCHANGED <<server_running, port_owner, after_calls, stopped, served,
                   destroyed>>

\* stop_server: clears the flag and updates the button and the labels
StopServer ==
    /\ server_running
    /\ UpdateServerStatus(FALSE)
    /\ stopped' = stopped \cup {t \in Threads : thread_state[t] \in {"created", "serving"}}
    /\ served' = 0
    /\ UNCHANGED <<server_thread, thread_state, port_owner, after_calls,
                   destroyed>>

\* toggle_server, the command of the server button
ToggleServer ==
    /\ ~destroyed
    /\ server_button = "normal"
    /\ IF ~server_running THEN StartServer ELSE StopServer

\* quick_start (also reached from new_analysis): starts the server unless
\* the flag says it runs
QuickStart ==
    /\ ~destroyed
    /\ ~server_running
    /\ StartServer

\* run_server, first part: self.app = create_app(); self.server_running =
\* True; self.after(100, update_server_status(True)).  When create_app
\* raises, the except clause queues show_error and update_server_status(False).
RunServerCreateApp(t, ok) ==
    /\ ~destroyed
    /\ thread_state[t] = "started"
    /\ IF ok
       THEN /\ thread_state' = [thread_state EXCEPT ![t] = "created"]
            /\ server_running' = TRUE
            /\ after_calls' = Append(after_calls, "status_true")
       ELSE /\ thread_state' = [thread_state EXCEPT ![t] = "terminated"]
            /\ after_calls' = after_calls \o <<"show_error", "status_false">>
            /\ UNCHANGED server_running
    /\ UNCHANGED <<server_thread, port_owner, server_button, stopped, served,
                   destroyed>>

\* run_server, second part: self.app.run(host, port, threaded=True) binds
\* the port and serves until the process ends, or raises (the port is in
\* use) and the except clause queues the two callbacks.
RunServerAppRun(t, binds) ==
    /\ ~destroyed
    /\ thread_state[t] = "created"
    /\ IF binds /\ port_owner = 0
       THEN /\ thread_state' = [thread_state EXCEPT ![t] = "serving"]
            /\ port_owner' = t
            /\ UNCHANGED after_calls
       ELSE /\ thread_state' = [thread_state EXCEPT ![t] = "terminated"]
            /\ after_calls' = after_calls \o <<"show_error", "status_false">>
            /\ UNCHANGED port_owner
    /\ UNCHANGED <<server_running, server_thread, server_button, stopped,
                   served, destroyed>>

\* the Flask server of a thread blocked in app.run answers a request
ServeRequest(t) ==
    /\ ~destroyed
    /\ thread_state[t] = "serving"
    /\ served < MaxServed
    /\ served' = served + 1
    /\ UNCHANGED <<server_running, server_thread, thread_state, port_owner,
                   after_calls, server_button, stopped, destroyed>>

\* the Tk main loop runs the next callback queued with after()
TkAfter ==
    /\ ~destroyed
    /\ after_calls # <<>>
    /\ after_calls' = Tail(after_calls)
    /\ IF Head(after_calls) = "status_true" THEN UpdateServerStatus(TRUE)
       ELSE IF Head(after_calls) = "status_false" THEN UpdateServerStatus(FALSE)
       ELSE UNCHANGED <<server_running, server_button>>
    /\ UNCHANGED <<server_thread, thread_state, port_owner, stopped, served,
                   destroyed>>

\* on_closing: destroy() ends mainloop and the process, and with it the
\* daemon threads; with the flag set the user is asked first.
OnClosing(response) ==
    /\ ~destroyed
    /\ server_running => response
    /\ server_running' = FALSE
    /\ destroyed' = TRUE
    /\ thread_state' = [t \in Threads |->
                          IF thread_state[t] = "none" THEN "none" ELSE "terminated"]
    /\ port_owner' = 0
    /\ after_calls' = <<>>
    /\ UNCHANGED <<server_thread, server_button, stopped, served>>

(***************************************************************************)
(* Claims about the desktop application                                    *)
(***************************************************************************)

\* C19 as stated: after stop_server is called while the server is running,
\* the Flask server is stopped: the server thread started by start_server
\* eventually terminates and no longer serves requests on the port.
C19_StoppedServerTerminates ==
    \A t \in Threads :
        (t \in stopped) ~> (thread_state[t] = "terminated" /\ port_owner # t)

DesktopInitIdle ==
    /\ server_running = FALSE
    /\ server_thread = 0
    /\ thread_state = [t \in Threads |-> "none"]
    /\ port_owner = 0
    /\ after_calls = <<>>
    /\ server_button = "normal"
    /\ stopped = {}
    /\ served = 0
    /\ destroyed = FALSE

(***************************************************************************)
(* Specifications                                                          *)
(***************************************************************************)

vars == <<llmVars, mgrVars, synVars, rtVars, dtVars>>

notLLM == <<mgrVars, synVars, rtVars, dtVars>>

notMgr == <<llmVars, synVars, rtVars, dtVars>>

notSyn == <<llmVars, mgrVars, rtVars, dtVars>>

notRt == <<llmVars, mgrVars, synVars, dtVars>>

notDt == <<llmVars, mgrVars, synVars, rtVars>>

LLMNext ==
    \/ \E textOk \in BOOLEAN : AnalyzeWithLlm(textOk) /\ UNCHANGED notLLM
    \/ RequestSucceeds /\ UNCHANGED notLLM
    \/ \E e \in ErrMsgs : RequestFails(e) /\ UNCHANGED notLLM

MgrNext ==
    \/ \E c \in Callers, o \in Overrides : GenerateText(c, o) /\ UNCHANGED notMgr
    \/ \E c \in Callers : LockTest(c) /\ UNCHANGED notMgr
    \/ \E c \in Callers : LockSet(c) /\ UNCHANGED notMgr
    \/ \E c \in Callers : LockWake(c) /\ UNCHANGED notMgr
    \/ \E c \in Callers : ReadTime(c) /\ UNCHANGED notMgr
    \/ \E c \in Callers : WakeUp(c) /\ UNCHANGED notMgr
    \/ \E c \in Callers : SetLast(c) /\ UNCHANGED notMgr
    \/ \E c \in Callers : Release(c) /\ UNCHANGED notMgr
    \/ \E c \in Callers : GetKey(c) /\ UNCHANGED notMgr
    \/ \E c \in Callers : StoreIdxAndSend(c) /\ UNCHANGED notMgr
    \/ \E c \in Callers, r \in Responses : Receive(c, r) /\ UNCHANGED notMgr
    \/ ResetFailedModels /\ UNCHANGED notMgr
    \/ Tick(TickFine) /\ UNCHANGED notMgr

MgrThreadsNext ==
    \/ MgrNext
    \/ \E c \in Callers : LockError(c) /\ UNCHANGED notMgr

SynNext ==
    \/ ProcessSynthesisResultCall /\ UNCHANGED notSyn
    \/ \E consolidacao \in Consolidations, failure \in Failures :
          ExecuteDeepSpecializationStudy(consolidacao, failure) /\ UNCHANGED notSyn
    \/ \E mdj, md \in MassiveInputs, failure \in Failures :
          ExecuteEnhancedSynthesisWithMassiveData(mdj, md, failure) /\ UNCHANGED notSyn

ExecuteFailures == {None, "search", "predictive", "modules"}

CollectorFailures == {None, "collector"}

SynthesisFailures == {None, "synthesis"}

Step2Failures == {None, "import", "ai_manager"}

Step3Failures == {None, "modules", "report", "html", "jsonify"}

RtNext ==
    \/ \E data \in AnalysisBodies, failure \in ExecuteFailures :
          ExecuteCompleteAnalysis(data, failure) /\ UNCHANGED notRt
    \/ \E data \in SessionBodies, failure \in CollectorFailures :
          StartCollection(data, failure) /\ UNCHANGED notRt
    \/ \E data \in SessionBodies, failure \in SynthesisFailures :
          StartAnalysis(data, failure) /\ UNCHANGED notRt
    \/ \E data \in SessionBodies, failure \in CollectorFailures :
          WorkflowStep1(data, failure) /\ UNCHANGED notRt
    \/ \E data \in SessionBodies, failure \in Step2Failures :
          WorkflowStep2(data, failure) /\ UNCHANGED notRt
    \/ \E data \in SessionBodies, failure \in Step3Failures :
          WorkflowStep3(data, failure) /\ UNCHANGED notRt
    \/ \E data \in SessionBodies, f1 \in CollectorFailures,
           f2 \in Step2Failures, f3 \in Step3Failures :
          WorkflowComplete(data, f1, f2, f3) /\ UNCHANGED notRt
    \/ \E session_id \in ClientSessionIds, synthesis_type \in SynthesisTypes :
          SaveSynthesisResult(session_id, synthesis_type) /\ UNCHANGED notRt
    \/ \E session_id \in ClientSessionIds :
          ExportSynthesisToFormats(session_id) /\ UNCHANGED notRt

DesktopThreadStep ==
    \/ \E t \in Threads, ok \in BOOLEAN : RunServerCreateApp(t, ok) /\ UNCHANGED notDt
    \/ \E t \in Threads, binds \in BOOLEAN : RunServerAppRun(t, binds) /\ UNCHANGED notDt

DesktopNext ==
    \/ ToggleServer /\ UNCHANGED notDt
    \/ QuickStart /\ UNCHANGED notDt
    \/ \E t \in Threads, ok \in BOOLEAN : RunServerCreateApp(t, ok) /\ UNCHANGED notDt
    \/ \E t \in Threads, binds \in BOOLEAN : RunServerAppRun(t, binds) /\ UNCHANGED notDt
    \/ \E t \in Threads : ServeRequest(t) /\ UNCHANGED notDt
    \/ TkAfter /\ UNCHANGED notDt
    \/ \E response \in BOOLEAN : OnClosing(response) /\ UNCHANGED notDt

LLMSpecInit == LLMInit /\ MgrInitIdle /\ SynInitIdle /\ RtInitIdle /\ DesktopInitIdle

MgrSpecInit == MgrInit /\ LLMInitIdle /\ SynInitIdle /\ RtInitIdle /\ DesktopInitIdle

MgrThreadsSpecInit == MgrThreadsInit /\ LLMInitIdle /\ SynInitIdle /\ RtInitIdle /\ DesktopInitIdle

SynSpecInit == SynInit /\ LLMInitIdle /\ MgrInitIdle /\ RtInitIdle /\ DesktopInitIdle

RtSpecInit == RtInit /\ LLMInitIdle /\ MgrInitIdle /\ SynInitIdle /\ DesktopInitIdle

DesktopSpecInit == DesktopInit /\ LLMInitIdle /\ MgrInitIdle /\ SynInitIdle /\ RtInitIdle

SpecLLM == LLMSpecInit /\ [][LLMNext]_vars

SpecMgr == MgrSpecInit /\ [][MgrNext]_vars

SpecMgrThreads == MgrThreadsSpecInit /\ [][MgrThreadsNext]_vars

SpecSyn == SynSpecInit /\ [][SynNext]_vars

SpecRoutes == RtSpecInit /\ [][RtNext]_vars

SpecDesktop == DesktopSpecInit /\ [][DesktopNext]_vars

\* The operating system schedules the server thread and the Tk main loop
\* runs the callbacks queued with after(): both go on as long as they can.
\* The user's clicks and the clients' requests are under no obligation.
SpecDesktopFair ==
    /\ SpecDesktop
    /\ WF_vars(DesktopThreadStep)
    /\ WF_vars(TkAfter /\ UNCHANGED notDt)

====
